---------------------------- MODULE Spec2Model ----------------------------
(***************************************************************************)
(* A model of the Livebox API client (livebox_tools/livebox.py): the       *)
(* session fields of class Livebox, the request layer (__query,            *)
(* _queryUnauth, _queryAuth, _sysbus), login, logout, the require_auth and *)
(* action decorators and the LB_* catalogue.                               *)
(*                                                                         *)
(* A Python str is a sequence of tokens (each token a run of characters    *)
(* holding none of the separators the program splits on); the separators   *)
(* "/" and ";" are tokens of their own.  The empty str is <<>>.            *)
(* A dict is a function from its keys to its values.                       *)
(* The router (the HTTP server) is the environment: every operation that   *)
(* performs a request receives one outcome, drawn from a finite set.       *)
(***************************************************************************)
EXTENDS Integers, Sequences, FiniteSets, TLC

VARIABLES
  connection,      \* self.__connection: "None" or the HTTPConnection handle
  cookies,         \* self.__cookies
  cookies_code,    \* self.__cookies_code (an attribute only once login set it)
  contextID,       \* self.__contextID
  is_connected,    \* self.__is_connected
  query_headers,   \* the dict() that is the default of __query's headers
  auth_headers,    \* the dict() that is the default of _queryAuth's headers
  op,              \* the public operation called last, with its arguments
  resp,            \* the outcome the router gave to the request of that call
  events,          \* what that call did, in order: lines printed, requests sent
  ret              \* what that call returned, or the exception it raised

vars == <<connection, cookies, cookies_code, contextID, is_connected,
          query_headers, auth_headers, op, resp, events, ret>>

session == <<cookies, contextID, is_connected>>

-----------------------------------------------------------------------------
(* Bounds of the model *)

\* the router hands out context identifiers "ctx1" .. "ctx<NumContexts>"
NumContexts == 1

-----------------------------------------------------------------------------
(* Python values *)

EmptyStr == <<>>

Str(token) == <<token>>

\* an optional str: a header that may be missing, an attribute not yet set
Absent == [present |-> FALSE, val |-> EmptyStr]

Present(s) == [present |-> TRUE, val |-> s]

\* s.split(sep)[0]: the part of s before the first sep, s itself if none
RECURSIVE SplitFirst(_, _)
SplitFirst(s, sep) ==
  IF s = <<>> \/ Head(s) = sep
    THEN <<>>
    ELSE <<Head(s)>> \o SplitFirst(Tail(s), sep)

\* d[k] = v on a dict
Put(d, k, v) == (k :> v) @@ d

\* the decoded value of a JSON body: whether it has data.contextID, and it
NoJson == [hasContextID |-> FALSE, contextID |-> EmptyStr]

ContextIDs == {EmptyStr} \cup {Str("ctx" \o ToString(i)) : i \in 1..NumContexts}

JsonValues == {NoJson} \cup {[hasContextID |-> TRUE, contextID |-> x] : x \in ContextIDs}

\* a response body: no bytes, bytes that are not JSON, or a JSON text
EmptyBody == [kind |-> "empty", json |-> NoJson]

MalformedBody == [kind |-> "malformed", json |-> NoJson]

JsonBody(v) == [kind |-> "json", json |-> v]

Bodies == {EmptyBody, MalformedBody} \cup {JsonBody(v) : v \in JsonValues}

\* what a call gives back: None, a str, a decoded JSON value, or an exception
RetNone == [kind |-> "None", str |-> EmptyStr, json |-> NoJson, exc |-> "none"]

RetStr(s) == [kind |-> "str", str |-> s, json |-> NoJson, exc |-> "none"]

RetJson(v) == [kind |-> "json", str |-> EmptyStr, json |-> v, exc |-> "none"]

Raise(e) == [kind |-> "raise", str |-> EmptyStr, json |-> NoJson, exc |-> e]

\* json.loads(bytes.decode('utf8')): the value, or ValueError (JSONDecodeError)
json_loads(body) ==
  IF body.kind = "json" THEN RetJson(body.json) ELSE Raise("ValueError")


-----------------------------------------------------------------------------
(* The router's answer to one request *)

\* the exception classes connection.request / getresponse can raise, each with
\* its base class (http.client's hierarchy; OSError is what a socket raises)
BaseClass ==
  [c \in {"NotConnected", "InvalidURL", "BadStatusLine",
          "ImproperConnectionState", "HTTPException", "OSError"} |->
     CASE c = "HTTPException" -> "Exception"
       [] c = "OSError" -> "Exception"
       [] OTHER -> "HTTPException"]

ExceptionClasses == DOMAIN BaseClass

\* isinstance(an exception of class c, k)
RECURSIVE IsInstance(_, _)
IsInstance(c, k) ==
  \/ c = k
  \/ c \in DOMAIN BaseClass /\ IsInstance(BaseClass[c], k)

\* http.client.OK
OK == 200

\* the statuses a router answers with: 200, and 401 for the others
Statuses == {OK, 401}

JsonType == <<"application/json">>

\* Content-Type values a router can send, and none at all
ContentTypes ==
  {Absent, Present(JsonType),
   Present(JsonType \o <<";", " charset=utf-8">>),
   Present(<<"text/html">>)}

\* the Set-Cookie value of the router: "<code>/sessid=<id>; path=/"
SetCookieValue == <<"b1a2c3", "/", "sessid=", "k9", ";", " path=", "/">>

SetCookies == {Absent, Present(SetCookieValue)}

\* an HTTPResponse that was received
Response(status, ctype, body, setCookie) ==
  [fail |-> "none", status |-> status, ctype |-> ctype, body |-> body,
   setCookie |-> setCookie]

\* the request raised an exception of class c
Failure(c) ==
  [fail |-> c, status |-> 0, ctype |-> Absent, body |-> EmptyBody,
   setCookie |-> Absent]

\* the call performed no request
NoRequest == Failure("no request")

Failures == {Failure(c) : c \in ExceptionClasses}

\* login reads the status, the body and Set-Cookie
LoginResponses ==
  Failures \cup
  {Response(s, Present(JsonType), b, c) : s \in Statuses, b \in Bodies, c \in SetCookies}

\* _queryAuth reads the body and Content-Type, and no status
AuthResponses ==
  Failures \cup
  {Response(OK, t, b, Absent) :
     t \in ContentTypes, b \in {EmptyBody, MalformedBody, JsonBody(NoJson)}}

\* logout reads nothing of the answer to its request
LogoutResponses ==
  AuthResponses \cup
  {Response(401, t, b, Absent) :
     t \in ContentTypes, b \in {EmptyBody, MalformedBody, JsonBody(NoJson)}}

\* _queryUnauth reads the body alone
UnauthResponses ==
  Failures \cup
  {Response(OK, Present(JsonType), b, Absent) :
     b \in {EmptyBody, MalformedBody, JsonBody(NoJson)}}

-----------------------------------------------------------------------------
(* What a call does, in order *)

NoReq == [method |-> "", url |-> EmptyStr, body |-> Absent, headers |-> <<>>]

Printed(msg) == [kind |-> "print", msg |-> msg, req |-> NoReq]

Requested(req) == [kind |-> "request", msg |-> "", req |-> req]

IsRequest(e) == e.kind = "request"

IsPrint(e) == e.kind = "print"

\* the requests among the events, and the lines printed
Sent(evs) == SelectSeq(evs, IsRequest)

Logged(evs) == SelectSeq(evs, IsPrint)

-----------------------------------------------------------------------------
(* QUERY SECTION *)

None == "None"

HTTPConnection == "HTTPConnection"

\* a plausible slip: the clause for the base class written first
ExceptClausesBaseFirst ==
  << [class |-> "HTTPException", msg |-> "Error HTTP"],
     [class |-> "NotConnected", msg |-> "Error not connected"],
     [class |-> "InvalidURL", msg |-> "Error InvalidURL"],
     [class |-> "BadStatusLine", msg |-> "Error BadStatusLine"],
     [class |-> "ImproperConnectionState", msg |-> "Error ImproperConnectionState"] >>

\* the except clauses of __query, in the order they are written
ExceptClauses ==
  << [class |-> "NotConnected", msg |-> "Error not connected"],
     [class |-> "InvalidURL", msg |-> "Error InvalidURL"],
     [class |-> "BadStatusLine", msg |-> "Error BadStatusLine"],
     [class |-> "ImproperConnectionState", msg |-> "Error ImproperConnectionState"],
     [class |-> "HTTPException", msg |-> "Error HTTP"] >>

\* the first except clause of `clauses` that catches an exception of class c
\* (0: none does, the exception propagates)
RECURSIVE Catches(_, _, _)
Catches(clauses, c, i) ==
  IF i > Len(clauses) THEN 0
  ELSE IF IsInstance(c, clauses[i].class) THEN i
  ELSE Catches(clauses, c, i + 1)

\* Livebox.__query(query, params, headers, content_type, method) on the router
\* outcome r: the connection handle and the headers dict as the call leaves
\* them, what it did, and the HTTPResponse, None, or the exception raised.
\* The request event is the call connection.request(method, query, data, headers).
query(conn, headers, q, params, content_type, method, r) ==
  LET data == params  \* str.encode('utf8'): the same characters as bytes
      conn1 == IF conn = None THEN HTTPConnection ELSE conn
      h1 == Put(headers, "Connection", Str("keep-alive"))
      h2 == Put(h1, "User-Agent", Str("Python Livebox Tools"))
      h3 == IF "Content-Type" \notin DOMAIN h2
              THEN Put(h2, "Content-Type", content_type)
              ELSE h2
      req == Requested([method |-> method, url |-> q, body |-> data,
                        headers |-> h3])
      clause == Catches(ExceptClauses, r.fail, 1)
  IN  IF r.fail = "none"
        THEN [connection |-> conn1, headers |-> h3, events |-> <<req>>,
              isNone |-> FALSE, response |-> r, exc |-> "none"]
      ELSE IF clause # 0
        THEN [connection |-> conn1, headers |-> h3,
              events |-> <<req, Printed(ExceptClauses[clause].msg)>>,
              isNone |-> TRUE, response |-> r, exc |-> "none"]
      ELSE [connection |-> conn1, headers |-> h3, events |-> <<req>>,
            isNone |-> TRUE, response |-> r, exc |-> r.fail]

\* Livebox._queryUnauth(query, params, method): it passes no headers, so
\* __query works on its own default dict
queryUnauth(conn, qh, q, params, method, r) ==
  LET res == query(conn, qh, q, params, JsonType, method, r)
      result ==
        IF res.exc # "none" THEN Raise(res.exc)
        ELSE IF res.isNone THEN RetStr(EmptyStr)
        ELSE IF r.body.kind # "empty" THEN json_loads(r.body)
        ELSE RetStr(EmptyStr)
  IN  [connection |-> res.connection, headers |-> res.headers,
       events |-> res.events, ret |-> result]

\* the headers _queryAuth puts into the dict it was given
AuthHeaders(headers, cookie, context) ==
  LET h1 == Put(headers, "Cookie", cookie)
      h2 == Put(h1, "X-Context", context)
      h3 == Put(h2, "X-Sah-Request-Type", Str("idle"))
      h4 == Put(h3, "X-Requested-With", Str("XMLHttpRequest"))
      h5 == Put(h4, "X-Prototype-Version", Str("1.7"))
  IN  Put(h5, "DNT", Str("1"))

\* a plausible slip: the content type is not looked at
IsJsonContentUnchecked(ctype) == TRUE

\* the test of line 201 on a response whose body is not empty: KeyError when
\* the response has no Content-Type header
IsJsonContent(ctype) == SplitFirst(ctype.val, ";") = JsonType

\* Livebox._queryAuth(query, params, headers, method)
queryAuth(conn, headers, cookie, context, q, params, method, r) ==
  LET h == AuthHeaders(headers, cookie, context)
      res == query(conn, h, q, params, JsonType, method, r)
      result ==
        IF res.exc # "none" THEN Raise(res.exc)
        ELSE IF res.isNone THEN RetStr(EmptyStr)
        ELSE IF r.body.kind = "empty" THEN RetStr(EmptyStr)
        ELSE IF ~r.ctype.present THEN Raise("KeyError")
        ELSE IF IsJsonContent(r.ctype) THEN json_loads(r.body)
        ELSE RetStr(EmptyStr)
  IN  [connection |-> res.connection, headers |-> res.headers,
       events |-> res.events, ret |-> result]

-----------------------------------------------------------------------------
(* The public operations *)

\* the call made last: its name and its arguments, each written as a str
Call(name, args) == [name |-> name, args |-> args]

NoCall == Call("__init__", <<>>)

\* str(True), str(False)
PyBool(b) == IF b THEN "True" ELSE "False"

USERNAME == Str("admin")

URL_P_LOGOUT == <<"/", "logout">>

\* URL_P_AUTH.format(username=..., password=...)
URL_P_AUTH(username, password) ==
  <<"/", "authenticate?username=">> \o username \o <<"&password=">> \o password

\* urllib.parse.urlencode({'username': ..., 'password': ...}): quote_plus
\* writes a space as "+"
urlencode(username, password) ==
  LET quote_plus(s) == [i \in 1..Len(s) |-> IF s[i] = " " THEN "+" ELSE s[i]]
  IN  <<"username=">> \o quote_plus(username) \o <<"&password=">>
        \o quote_plus(password)

\* the passwords a caller logs in with (given, or typed at the getpass prompt)
Passwords == {<<"my", " ", "secret">>}

\* Livebox.__init__
Init ==
  /\ connection = None
  /\ cookies = EmptyStr
  /\ cookies_code = Absent
  /\ contextID = EmptyStr
  /\ is_connected = FALSE
  /\ query_headers = <<>>
  /\ auth_headers = <<>>
  /\ op = NoCall
  /\ resp = NoRequest
  /\ events = <<>>
  /\ ret = RetNone

\* a plausible slip: the status is not looked at
LoginAcceptedAnyStatus(isNone, status) == ~isNone

\* line 86: response is not None and response.status == http.client.OK
LoginAccepted(isNone, status) == ~isNone /\ status = OK

\* lines 90-94: the cookie string built from Set-Cookie and the context
BuildCookies(setCookie, code, username, context) ==
  SplitFirst(setCookie, ";") \o <<"; ">>
    \o code \o <<"/", "login=">> \o username \o <<"; ">>
    \o code \o <<"/", "context=">> \o context

\* Livebox.login(password)
login(password, r) ==
  LET res == query(connection, query_headers,
                   URL_P_AUTH(USERNAME, password),
                   Present(urlencode(USERNAME, password)), JsonType, "POST", r)
      datas == json_loads(r.body)
      code == SplitFirst(r.setCookie.val, "/")
  IN  /\ op' = Call("login", password)
      /\ resp' = r
      /\ connection' = res.connection
      /\ query_headers' = res.headers
      /\ events' = res.events
      /\ UNCHANGED auth_headers
      /\ IF res.exc # "none"
           THEN /\ ret' = Raise(res.exc)
                /\ UNCHANGED <<cookies, cookies_code, contextID, is_connected>>
         ELSE IF ~LoginAccepted(res.isNone, r.status)
           THEN /\ ret' = RetNone
                /\ UNCHANGED <<cookies, cookies_code, contextID, is_connected>>
         ELSE IF datas.kind = "raise"
           THEN /\ ret' = datas
                /\ UNCHANGED <<cookies, cookies_code, contextID, is_connected>>
         ELSE IF ~datas.json.hasContextID
           THEN /\ ret' = Raise("KeyError")
                /\ UNCHANGED <<cookies, cookies_code, contextID, is_connected>>
         ELSE IF ~r.setCookie.present
           \* line 89 stored the context, line 90 calls split on None
           THEN /\ contextID' = datas.json.contextID
                /\ ret' = Raise("AttributeError")
                /\ UNCHANGED <<cookies, cookies_code, is_connected>>
         ELSE /\ contextID' = datas.json.contextID
              /\ cookies_code' = Present(code)
              /\ cookies' = BuildCookies(r.setCookie.val, code, USERNAME,
                                         datas.json.contextID)
              /\ is_connected' = TRUE
              /\ ret' = RetNone

\* a plausible slip: logout without its test
LogoutNeverReturnsEarly(connected) == FALSE

\* line 103: if not self.__is_connected: return
LogoutReturnsEarly(connected) == ~connected

\* Livebox.logout()
logout(r) ==
  LET res == queryAuth(connection, auth_headers, cookies, contextID,
                       URL_P_LOGOUT, Present(EmptyStr), "POST", r)
  IN  /\ op' = Call("logout", <<>>)
      /\ UNCHANGED <<cookies, cookies_code, contextID, query_headers>>
      /\ IF LogoutReturnsEarly(is_connected)
           THEN /\ resp' = NoRequest
                /\ events' = <<>>
                /\ ret' = RetNone
                /\ UNCHANGED <<connection, auth_headers, is_connected>>
           ELSE /\ resp' = r
                /\ connection' = res.connection
                /\ auth_headers' = res.headers
                /\ events' = res.events
                /\ IF res.ret.kind = "raise"
                     THEN /\ ret' = res.ret
                          /\ UNCHANGED is_connected
                     ELSE /\ ret' = RetNone
                          /\ is_connected' = FALSE

\* "/sysbus/{:s}".format(quest)
SysbusPath(quest) == <<"/", "sysbus", "/">> \o quest

\* a plausible slip: one dict serves as the default headers of both paths
sysbus_one_dict(quest, param, auth, method, r) ==
  IF auth
    THEN LET res == queryAuth(connection, auth_headers, cookies, contextID,
                              SysbusPath(quest), param, method, r)
         IN  [connection |-> res.connection, auth_headers |-> res.headers,
              query_headers |-> query_headers, events |-> res.events,
              ret |-> res.ret]
    ELSE LET res == queryUnauth(connection, auth_headers,
                                SysbusPath(quest), param, method, r)
         IN  [connection |-> res.connection, auth_headers |-> res.headers,
              query_headers |-> query_headers, events |-> res.events,
              ret |-> res.ret]

\* Livebox._sysbus(quest, param, auth, method): what the call does and gives
sysbus(quest, param, auth, method, r) ==
  IF auth
    THEN LET res == queryAuth(connection, auth_headers, cookies, contextID,
                              SysbusPath(quest), param, method, r)
         IN  [connection |-> res.connection, auth_headers |-> res.headers,
              query_headers |-> query_headers, events |-> res.events,
              ret |-> res.ret]
    ELSE LET res == queryUnauth(connection, query_headers,
                                SysbusPath(quest), param, method, r)
         IN  [connection |-> res.connection, auth_headers |-> auth_headers,
              query_headers |-> res.headers, events |-> res.events,
              ret |-> res.ret]

DefaultParam == Present(<<"{\"parameters\":{}}">>)

\* the endpoints and arguments _sysbus is called with directly
SysbusCalls ==
  { [quest |-> <<"NMC:getWANStatus">>, param |-> DefaultParam, method |-> "POST"],
    [quest |-> <<"DeviceInfo">>, param |-> Absent, method |-> "GET"] }

\* a public call that leaves the session fields alone takes the effect `eff`
\* of its body (a record as sysbus gives)
Invoke(call, eff, r) ==
  /\ op' = call
  /\ resp' = IF Sent(eff.events) = <<>> THEN NoRequest ELSE r
  /\ connection' = eff.connection
  /\ auth_headers' = eff.auth_headers
  /\ query_headers' = eff.query_headers
  /\ events' = eff.events
  /\ ret' = eff.ret
  /\ UNCHANGED <<cookies, cookies_code, contextID, is_connected>>

\* a direct call of _sysbus
Sysbus(c, auth, r) ==
  Invoke(Call("_sysbus", c.quest \o c.param.val \o <<PyBool(auth), c.method>>),
         sysbus(c.quest, c.param, auth, c.method, r), r)

-----------------------------------------------------------------------------
(* The decorators *)

\* the effect of a call that performs nothing and gives `result`
NoEffect(result) ==
  [connection |-> connection, auth_headers |-> auth_headers,
   query_headers |-> query_headers, events |-> <<>>, ret |-> result]

AUTH_NEEDED == RetStr(<<"AUTH NEEDED">>)

\* a plausible slip: the decorator calls the method whatever the session is
check_auth_unchecked(connected, inner) == inner

\* require_auth's check_auth: `inner` is the effect of the wrapped method
check_auth(connected, inner) ==
  IF connected THEN inner ELSE NoEffect(AUTH_NEEDED)

\* action's check_action: print('ACTION'), then the wrapped method
\* a plausible slip: the notice printed once the wrapped call has returned
check_action_after(inner) ==
  [inner EXCEPT !.events = @ \o <<Printed("ACTION")>>]

check_action(inner) ==
  [inner EXCEPT !.events = <<Printed("ACTION")>> \o @]

-----------------------------------------------------------------------------
(* LIVEBOX API: each method is the effect of one call on the outcome r *)

LB_reboot(r) ==
  check_action(check_auth(is_connected,
    sysbus(<<"NMC:reboot">>, DefaultParam, TRUE, "POST", r)))

LB_DeviceInfo(r) ==
  check_auth(is_connected, sysbus(<<"DeviceInfo">>, Absent, TRUE, "GET", r))

LB_getWANStatus(r) == sysbus(<<"NMC:getWANStatus">>, DefaultParam, FALSE, "POST", r)

LB_WifiGet(r) == sysbus(<<"NMC", "/", "Wifi:get">>, DefaultParam, FALSE, "POST", r)

\* the values LB_Wifiset is called with: the two bool, and a str
EnableValues == {"True", "False", "on"}

\* isinstance(enable, bool)
IsBool(enable) == enable \in {"True", "False"}

\* str(enable).lower()
Lower(enable) == IF enable = "True" THEN "true" ELSE "false"

LB_Wifiset(enable, r) ==
  check_action(check_auth(is_connected,
    IF ~IsBool(enable)
      THEN NoEffect(RetStr(<<"ERROR">>))
      ELSE sysbus(<<"NMC", "/", "Wifi:set">>,
                  Present(<<"{\"parameters\":{\"Enable\":", Lower(enable),
                            ",\"Status\":", Lower(enable), "}}">>),
                  TRUE, "POST", r)))

LB_getLANIP(r) ==
  check_auth(is_connected, sysbus(<<"NMC:getLANIP">>, DefaultParam, TRUE, "POST", r))

LB_getStaticLeases(r) ==
  check_auth(is_connected,
    sysbus(<<"DHCPv4", "/", "Server", "/", "Pool", "/", "default:getStaticLeases">>,
           DefaultParam, TRUE, "POST", r))

LB_Firewall_getPortForwarding(r) ==
  check_auth(is_connected,
    sysbus(<<"Firewall:getPortForwarding">>, DefaultParam, TRUE, "POST", r))

LB_Firewall_getPinhole(r) ==
  check_auth(is_connected,
    sysbus(<<"Firewall:getPinhole">>, DefaultParam, TRUE, "POST", r))

LB_listTrunks(r) ==
  sysbus(<<"VoiceService", "/", "VoiceApplication:listTrunks">>,
         DefaultParam, FALSE, "POST", r)

LB_listHandsets(r) ==
  check_auth(is_connected,
    sysbus(<<"VoiceService", "/", "VoiceApplication:listHandsets">>,
           DefaultParam, TRUE, "POST", r))

LB_getVoIPConfig(r) ==
  check_auth(is_connected,
    sysbus(<<"NMC:getVoIPConfig">>, DefaultParam, TRUE, "POST", r))

LB_ring(r) ==
  check_action(check_auth(is_connected,
    sysbus(<<"VoiceService", "/", "VoiceApplication:ring">>,
           DefaultParam, TRUE, "POST", r)))

LB_DECT_getPin(r) ==
  check_auth(is_connected, sysbus(<<"DECT:getPIN">>, DefaultParam, TRUE, "POST", r))

LB_DECT_getVersion(r) ==
  check_auth(is_connected, sysbus(<<"DECT:getVersion">>, DefaultParam, TRUE, "POST", r))

LB_DECT_getStandardVersion(r) ==
  check_auth(is_connected,
    sysbus(<<"DECT:getStandardVersion">>, DefaultParam, TRUE, "POST", r))

LB_DECT_getRFPI(r) ==
  check_auth(is_connected, sysbus(<<"DECT:getRFPI">>, DefaultParam, TRUE, "POST", r))

LB_getIPTVStatus(r) ==
  sysbus(<<"NMC", "/", "OrangeTV:getIPTVStatus">>, DefaultParam, FALSE, "POST", r)

LB_getIPTVConfig(r) ==
  check_auth(is_connected,
    sysbus(<<"NMC", "/", "OrangeTV:getIPTVConfig">>, DefaultParam, TRUE, "POST", r))

LB_getUsers(r) ==
  check_auth(is_connected,
    sysbus(<<"UserManagement:getUsers">>, DefaultParam, TRUE, "POST", r))

\* a plausible slip: the @require_auth line forgotten
LB_LED_unguarded(r) == sysbus(<<"LED">>, Absent, TRUE, "GET", r)

LB_LED(r) ==
  check_auth(is_connected, sysbus(<<"LED">>, Absent, TRUE, "GET", r))

\* the two filter bodies of LB_DevicesGet (their expressions shortened)
filter_connected ==
  Present(<<"{\"parameters\":{\"expression\":{\"usbM2M\":...,\"dect\":...}}}">>)

filter_not_connected ==
  Present(<<"{\"parameters\":{\"expression\":\".Active==false\",\"traverse\":\"down\",\"flags\":\"\"}}">>)

\* expr is None (Absent) or a str; `if expr` holds of a str that is not empty
LB_DevicesGet(expr, filter, by_connected, r) ==
  IF expr.present /\ expr.val # EmptyStr
    THEN sysbus(<<"Devices:get">>, expr, FALSE, "POST", r)
  ELSE IF filter
    THEN sysbus(<<"Devices:get">>,
                IF by_connected THEN filter_connected ELSE filter_not_connected,
                FALSE, "POST", r)
  ELSE sysbus(<<"Devices:get">>, DefaultParam, FALSE, "POST", r)

LB_DevicesGet_DECT(r) ==
  LB_DevicesGet(
    Present(<<"{\"parameters\":{\"expression\":{\"dect\":\"voice && dect && handset && physical\"}}}">>),
    FALSE, TRUE, r)

LB_lanGetMIBs(r) ==
  check_auth(is_connected,
    sysbus(<<"NeMo", "/", "Intf", "/", "lan:getMIBs">>, DefaultParam, TRUE, "POST", r))

\* the class body defines LB_dataGetMIBs twice: the second definition is the
\* method the class has
LB_dataGetMIBs(r) ==
  check_auth(is_connected,
    sysbus(<<"USBHosts:getDevices">>, DefaultParam, TRUE, "POST", r))

\* the methods decorated with @require_auth
AuthRequired ==
  {"LB_reboot", "LB_DeviceInfo", "LB_Wifiset", "LB_getLANIP",
   "LB_getStaticLeases", "LB_Firewall_getPortForwarding",
   "LB_Firewall_getPinhole", "LB_listHandsets", "LB_getVoIPConfig", "LB_ring",
   "LB_DECT_getPin", "LB_DECT_getVersion", "LB_DECT_getStandardVersion",
   "LB_DECT_getRFPI", "LB_getIPTVConfig", "LB_getUsers", "LB_LED",
   "LB_lanGetMIBs", "LB_dataGetMIBs"}

\* the methods decorated with @action
Actions == {"LB_reboot", "LB_Wifiset", "LB_ring"}

\* the methods of the catalogue that take no argument
NoArgMethods ==
  (AuthRequired \ {"LB_Wifiset"}) \cup
  {"LB_getWANStatus", "LB_WifiGet", "LB_listTrunks", "LB_getIPTVStatus",
   "LB_DevicesGet_DECT"}

\* getattr(lb, name)() on the outcome r
Method(name, r) ==
  CASE name = "LB_reboot" -> LB_reboot(r)
    [] name = "LB_DeviceInfo" -> LB_DeviceInfo(r)
    [] name = "LB_getWANStatus" -> LB_getWANStatus(r)
    [] name = "LB_WifiGet" -> LB_WifiGet(r)
    [] name = "LB_getLANIP" -> LB_getLANIP(r)
    [] name = "LB_getStaticLeases" -> LB_getStaticLeases(r)
    [] name = "LB_Firewall_getPortForwarding" -> LB_Firewall_getPortForwarding(r)
    [] name = "LB_Firewall_getPinhole" -> LB_Firewall_getPinhole(r)
    [] name = "LB_listTrunks" -> LB_listTrunks(r)
    [] name = "LB_listHandsets" -> LB_listHandsets(r)
    [] name = "LB_getVoIPConfig" -> LB_getVoIPConfig(r)
    [] name = "LB_ring" -> LB_ring(r)
    [] name = "LB_DECT_getPin" -> LB_DECT_getPin(r)
    [] name = "LB_DECT_getVersion" -> LB_DECT_getVersion(r)
    [] name = "LB_DECT_getStandardVersion" -> LB_DECT_getStandardVersion(r)
    [] name = "LB_DECT_getRFPI" -> LB_DECT_getRFPI(r)
    [] name = "LB_getIPTVStatus" -> LB_getIPTVStatus(r)
    [] name = "LB_getIPTVConfig" -> LB_getIPTVConfig(r)
    [] name = "LB_getUsers" -> LB_getUsers(r)
    [] name = "LB_LED" -> LB_LED(r)
    [] name = "LB_DevicesGet_DECT" -> LB_DevicesGet_DECT(r)
    [] name = "LB_lanGetMIBs" -> LB_lanGetMIBs(r)
    [] name = "LB_dataGetMIBs" -> LB_dataGetMIBs(r)

\* a call of a method without argument
CallMethod(name, r) == Invoke(Call(name, <<>>), Method(name, r), r)

\* lb.LB_Wifiset(enable)
CallWifiset(enable, r) ==
  Invoke(Call("LB_Wifiset", <<enable>>), LB_Wifiset(enable, r), r)

\* the arguments LB_DevicesGet is called with
DevicesGetArgs ==
  { [expr |-> Absent, filter |-> FALSE, by_connected |-> TRUE],
    [expr |-> Present(<<"{\"parameters\":{\"expression\":\"wifi\"}}">>),
     filter |-> TRUE, by_connected |-> TRUE],
    [expr |-> Present(EmptyStr), filter |-> TRUE, by_connected |-> TRUE],
    [expr |-> Absent, filter |-> TRUE, by_connected |-> FALSE] }

\* lb.LB_DevicesGet(expr, filter, by_connected)
CallDevicesGet(a, r) ==
  Invoke(Call("LB_DevicesGet",
              a.expr.val \o <<PyBool(a.filter), PyBool(a.by_connected)>>),
         LB_DevicesGet(a.expr, a.filter, a.by_connected, r), r)

Next ==
  \/ \E password \in Passwords, r \in LoginResponses : login(password, r)
  \/ \E r \in LogoutResponses : logout(r)
  \/ \E c \in SysbusCalls, r \in AuthResponses : Sysbus(c, TRUE, r)
  \/ \E c \in SysbusCalls, r \in UnauthResponses : Sysbus(c, FALSE, r)

Spec == Init /\ [][Next]_vars

-----------------------------------------------------------------------------
(* The catalogue: every public method, on a few outcomes of each kind *)

\* logins that succeed, that are refused, and that answer without Set-Cookie
CatalogueLogins ==
  {Response(OK, Present(JsonType), JsonBody([hasContextID |-> TRUE, contextID |-> x]),
            Present(SetCookieValue)) : x \in ContextIDs}
  \cup {Response(401, Present(JsonType), EmptyBody, Absent),
        Response(OK, Present(JsonType),
                 JsonBody([hasContextID |-> TRUE, contextID |-> EmptyStr]), Absent)}

\* a failure that is caught, a JSON answer, and an answer that is not JSON
CatalogueResponses ==
  {Failure("BadStatusLine"),
   Response(OK, Present(JsonType), JsonBody(NoJson), Absent),
   Response(OK, Present(<<"text/html">>), MalformedBody, Absent)}

NextCatalogue ==
  \/ \E password \in Passwords, r \in CatalogueLogins : login(password, r)
  \/ \E r \in CatalogueResponses : logout(r)
  \/ \E name \in NoArgMethods, r \in CatalogueResponses : CallMethod(name, r)
  \/ \E enable \in EnableValues, r \in CatalogueResponses : CallWifiset(enable, r)
  \/ \E a \in DevicesGetArgs, r \in CatalogueResponses : CallDevicesGet(a, r)

SpecCatalogue == Init /\ [][NextCatalogue]_vars

-----------------------------------------------------------------------------
(* A second Livebox object: the dict() defaults of __query and _queryAuth are
   made once, when the class body runs, and serve every object of the class *)

\* the session of the other object: fresh, or logged in by another login
OtherSessions ==
  { [cookies |-> EmptyStr, contextID |-> EmptyStr],
    [cookies |-> BuildCookies(<<"d4e5f6", "/", "sessid=", "z7", ";", " path=", "/">>,
                              <<"d4e5f6">>, USERNAME, <<"ctxB">>),
     contextID |-> <<"ctxB">>] }

\* other._sysbus(quest, param, auth, method), the other object being in
\* session s and holding a connection of its own
OtherSysbus(s, c, auth, r) ==
  LET res == IF auth
               THEN queryAuth(HTTPConnection, auth_headers, s.cookies, s.contextID,
                              SysbusPath(c.quest), c.param, c.method, r)
               ELSE queryUnauth(HTTPConnection, query_headers,
                                SysbusPath(c.quest), c.param, c.method, r)
  IN  /\ op' = Call("other._sysbus",
                    c.quest \o c.param.val \o <<PyBool(auth), c.method>>)
      /\ resp' = r
      /\ events' = res.events
      /\ ret' = res.ret
      /\ auth_headers' = IF auth THEN res.headers ELSE auth_headers
      /\ query_headers' = IF auth THEN query_headers ELSE res.headers
      /\ UNCHANGED <<connection, cookies, cookies_code, contextID, is_connected>>

NextShared ==
  \/ \E password \in Passwords, r \in CatalogueLogins : login(password, r)
  \/ \E r \in CatalogueResponses : logout(r)
  \/ \E c \in SysbusCalls, r \in CatalogueResponses : Sysbus(c, TRUE, r)
  \/ \E c \in SysbusCalls, r \in CatalogueResponses : Sysbus(c, FALSE, r)
  \/ \E s \in OtherSessions, c \in SysbusCalls, r \in CatalogueResponses :
       OtherSysbus(s, c, TRUE, r)
  \/ \E s \in OtherSessions, c \in SysbusCalls, r \in CatalogueResponses :
       OtherSysbus(s, c, FALSE, r)

SpecShared == Init /\ [][NextShared]_vars

-----------------------------------------------------------------------------
(* Properties *)

\* the last call was a login that received an HTTP response
LoginAnswered == op.name = "login" /\ resp.fail = "none"

\* the last call was _sysbus(..., auth=True)
SysbusAuth == op.name = "_sysbus" /\ op.args[Len(op.args) - 1] = "True"

LoginGranted ==
  /\ LoginAnswered
  /\ resp.status = OK
  /\ resp.body.kind = "json"
  /\ resp.body.json.hasContextID

\* the last call was a login that went through: it was granted and raised
\* nothing
LoginSucceeded == LoginGranted /\ ret.kind # "raise"

\* every request of `reqs` carries the X-Context header with value x
CarryContext(reqs, x) ==
  \A i \in 1..Len(reqs) :
    /\ "X-Context" \in DOMAIN reqs[i].req.headers
    /\ reqs[i].req.headers["X-Context"] = x

\* C2: a login whose response has status 200 and a JSON body with
\* data.contextID = X sets the connected flag and makes X the context; the
\* authenticated calls that follow send X-Context = X, the context changing
\* only at the next login that succeeds.
C2_LoginSetsContext ==
  [][ /\ LoginGranted' => (is_connected' /\ contextID' = resp'.body.json.contextID)
      /\ (SysbusAuth' \/ (op'.name = "logout" /\ is_connected))
           => (Len(Sent(events')) = 1 /\ CarryContext(Sent(events'), contextID))
      /\ contextID' # contextID => LoginSucceeded' ]_vars

\* C3 as claimed: after a login that received a non-200 response the
\* connected flag is false, whatever the session was before.
C3_FailedLoginDisconnects ==
  (LoginAnswered /\ resp.status # OK) => ~is_connected

\* C3 as amended: a login that receives a non-200 response changes none of
\* the connected flag, the cookie string and the context identifier (so a
\* session that was unauthenticated stays unauthenticated).
C3_FailedLoginChangesNothing ==
  [][ (LoginAnswered' /\ resp'.status # OK)
        => (is_connected' = is_connected /\ cookies' = cookies
            /\ contextID' = contextID /\ ret' = RetNone) ]_vars

\* C3 witness: a connected session received a non-200 response to a login
\* whose body and Set-Cookie were those of a granted login.
C3_Witness ==
  /\ LoginAnswered
  /\ resp.status # OK
  /\ resp.body.kind = "json"
  /\ resp.body.json.hasContextID
  /\ resp.body.json.contextID # contextID
  /\ resp.setCookie.present
  /\ is_connected

\* C4: whenever the connected flag is true, the cookie string and the
\* context identifier are both non-empty.
C4_ConnectedHasCredentials ==
  is_connected => (cookies # EmptyStr /\ contextID # EmptyStr)

\* a request is the authenticated POST to /logout
IsLogoutRequest(e) ==
  /\ e.req.method = "POST"
  /\ e.req.url = URL_P_LOGOUT
  /\ {"Cookie", "X-Context"} \subseteq DOMAIN e.req.headers

\* C5: logout on a connected session sends exactly one authenticated POST to
\* /logout and leaves the connected flag false, whatever the router answers
\* and also when the transport fails.
C5_LogoutDisconnects ==
  [][ (op'.name = "logout" /\ is_connected)
        => /\ Len(Sent(events')) = 1
           /\ IsLogoutRequest(Sent(events')[1])
           /\ ~is_connected' ]_vars

\* C6: after a logout of a connected session that ran to its end, the cookie
\* string and the context identifier are empty and the connected flag false.
C6_LogoutClearsCredentials ==
  (op.name = "logout" /\ resp # NoRequest /\ ret.kind # "raise")
    => (cookies = EmptyStr /\ contextID = EmptyStr /\ ~is_connected)

\* C7: the connected flag rises only by a login that succeeds and falls only
\* by logout; every other call, and a login that does not succeed, leaves
\* the connected flag, the cookie string and the context identifier alone.
C7_OnlyLoginAndLogoutChangeSession ==
  [][ /\ (~is_connected /\ is_connected') => LoginSucceeded'
      /\ (is_connected /\ ~is_connected') => op'.name = "logout"
      /\ (op'.name \notin {"login", "logout"} \/ (op'.name = "login" /\ ~LoginSucceeded'))
           => UNCHANGED <<is_connected, cookies, contextID>> ]_vars

\* the transport failures __query names
NamedFailures ==
  {"NotConnected", "InvalidURL", "BadStatusLine", "ImproperConnectionState",
   "HTTPException"}

\* what __query logs on a request that fails with an exception of class c
LoggedOn(c) ==
  Logged(query(None, <<>>, EmptyStr, Absent, JsonType, "POST", Failure(c)).events)

\* C8: on a transport failure of one of the named kinds the request layer
\* logs one message, different from the message of every other kind, no
\* exception reaches the caller, _sysbus (through either wrapper) returns the
\* empty str, and a login leaves the session state as it was.
C8_TransportFailureIsLogged ==
  [][ resp'.fail \in NamedFailures
        => /\ Len(Logged(events')) = 1
           /\ \A c \in NamedFailures \ {resp'.fail} : LoggedOn(c) # Logged(events')
           /\ ret'.kind # "raise"
           /\ op'.name = "_sysbus" => ret' = RetStr(EmptyStr)
           /\ op'.name = "login" => (ret' = RetNone /\ UNCHANGED session) ]_vars

\* C8 witness: a login on a connected session hit an improper connection state.
C8_Witness ==
  /\ op.name = "login"
  /\ resp.fail = "ImproperConnectionState"
  /\ is_connected
  /\ Len(Logged(events)) = 1

\* a Content-Type that is application/json, with or without parameters
ExactlyJson(ctype) ==
  /\ ctype.present
  /\ Len(ctype.val) >= 1
  /\ ctype.val[1] = "application/json"
  /\ Len(ctype.val) > 1 => ctype.val[2] = ";"

C10_LogoutNoop ==
  [][ (op'.name = "logout" /\ ~is_connected)
        => /\ Sent(events') = <<>>
           /\ UNCHANGED <<is_connected, cookies, contextID, connection>> ]_vars

\* C10 witness: logout was called on a session already logged out (its cookie
\* is still there) and did nothing.
C10_Witness ==
  /\ op.name = "logout"
  /\ resp = NoRequest
  /\ ~is_connected
  /\ cookies # EmptyStr

\* the headers _queryAuth adds to a request
SessionHeaders ==
  {"Cookie", "X-Context", "X-Sah-Request-Type", "X-Requested-With",
   "X-Prototype-Version", "DNT"}

\* C11: _sysbus(endpoint, params, auth, method) sends one request, to
\* "/sysbus/" + endpoint with the given method and body; the request carries
\* the session headers (Cookie and X-Context of this session, and the marker
\* headers) when auth is true and none of them when auth is false, whatever
\* logins and authenticated calls this object or another one made before.
C11_SessionHeadersIffAuth ==
  \A c \in SysbusCalls, a \in BOOLEAN :
    op = Call("_sysbus", c.quest \o c.param.val \o <<PyBool(a), c.method>>)
      => /\ Len(Sent(events)) = 1
         /\ LET req == Sent(events)[1].req
            IN  /\ req.url = <<"/", "sysbus", "/">> \o c.quest
                /\ req.method = c.method
                /\ req.body = c.param
                /\ a => /\ SessionHeaders \subseteq DOMAIN req.headers
                        /\ req.headers["Cookie"] = cookies
                        /\ req.headers["X-Context"] = contextID
                /\ ~a => SessionHeaders \cap DOMAIN req.headers = {}

\* C11 witness: an unauthenticated _sysbus call was made by a connected
\* session right after an authenticated call of the other object, whose
\* cookie and context still sit in the dict of _queryAuth.
C11_Witness ==
  /\ op.name = "_sysbus"
  /\ op.args[Len(op.args) - 1] = "False"
  /\ is_connected
  /\ cookies # EmptyStr
  /\ "X-Context" \in DOMAIN auth_headers
  /\ auth_headers["X-Context"] = <<"ctxB">>
  /\ Len(Sent(events)) = 1

\* the call `call` on the outcome r as the function below the @action line
\* makes it: require_auth applied to the method body
WithoutAction(call, r) ==
  CASE call.name = "LB_reboot" ->
         check_auth(is_connected,
           sysbus(<<"NMC:reboot">>, DefaultParam, TRUE, "POST", r))
    [] call.name = "LB_Wifiset" ->
         check_auth(is_connected,
           IF ~IsBool(call.args[1])
             THEN NoEffect(RetStr(<<"ERROR">>))
             ELSE sysbus(<<"NMC", "/", "Wifi:set">>,
                         Present(<<"{\"parameters\":{\"Enable\":", Lower(call.args[1]),
                                   ",\"Status\":", Lower(call.args[1]), "}}">>),
                         TRUE, "POST", r))
    [] call.name = "LB_ring" ->
         check_auth(is_connected,
           sysbus(<<"VoiceService", "/", "VoiceApplication:ring">>,
                  DefaultParam, TRUE, "POST", r))

\* C12: a call of a method decorated with action (LB_reboot, LB_Wifiset,
\* LB_ring) prints the notice first and then does what the same call does
\* without the decorator: same prints and requests after the notice, same
\* return value, same connection and header dicts, session state untouched;
\* so too when require_auth answers "AUTH NEEDED".
C12_ActionGuardObserves ==
  [][ op'.name \in Actions
        => LET inner == WithoutAction(op', resp')
           IN  /\ events' = <<Printed("ACTION")>> \o inner.events
               /\ Sent(events') = Sent(inner.events)
               /\ ret' = inner.ret
               /\ connection' = inner.connection
               /\ auth_headers' = inner.auth_headers
               /\ query_headers' = inner.query_headers
               /\ UNCHANGED <<cookies, cookies_code, contextID, is_connected>> ]_vars

\* C12 witness: LB_ring on a connected session printed the notice, then sent
\* its request and returned the decoded answer.
C12_Witness ==
  /\ op.name = "LB_ring"
  /\ is_connected
  /\ Len(events) = 2
  /\ events[1] = Printed("ACTION")
  /\ IsRequest(events[2])
  /\ ret.kind = "json"

\* C13: over any sequence of login, logout and LB_* calls, a request that
\* carries Cookie or X-Context is sent only by a call made while the
\* connected flag is true, and carries the cookie (never the empty one) and
\* the context the session holds at that moment.
C13_SessionHeadersOnlyWhileConnected ==
  [][ \A i \in 1..Len(Sent(events')) :
        LET headers == Sent(events')[i].req.headers
        IN  {"Cookie", "X-Context"} \cap DOMAIN headers # {}
              => /\ is_connected
                 /\ cookies # EmptyStr
                 /\ headers["Cookie"] = cookies
                 /\ headers["X-Context"] = contextID ]_vars

\* C13 witness: a method that needs authentication sent the session's cookie
\* and context on a connected session.
C13_Witness ==
  /\ op.name \in AuthRequired \ Actions
  /\ is_connected
  /\ Len(Sent(events)) = 1
  /\ "Cookie" \in DOMAIN Sent(events)[1].req.headers
  /\ Sent(events)[1].req.headers["Cookie"] = cookies
  /\ Sent(events)[1].req.headers["X-Context"] = contextID

=============================================================================
